---- MODULE Spec2Model ----
(***************************************************************************)
(* Model of the final Column class of denops/@ddu-columns/extra_filename.ts *)
(* (the second class of the file, lines 308-570) and of the tables and      *)
(* comparators it uses (lines 572-687).                                     *)
(*                                                                          *)
(* A JavaScript string is a sequence of one-character strings, so that      *)
(* split, join, slice, startsWith, basename and extname are computed        *)
(* character by character as the code computes them.  `undefined` is the    *)
(* value Undefined.                                                         *)
(***************************************************************************)
EXTENDS Integers, Sequences, FiniteSets, TLC

\* ------------------------------------------------------------ bounds

\* Longest batch of items handed to getLength.
MaxBatch == 2
\* Most initGit (resp. checkGitDiff) runs suspended at their await at once.
MaxTasks == 1

\* ------------------------------------------------------------ strings

Undefined == <<"undefined">>

\* a ?? b
Nullish(a, b) == IF a = Undefined THEN b ELSE a

\* UTF-16 code unit of a character: the order the < and > of strings use.
Code(c) ==
  CASE c = "\n" -> 10
    [] c = " " -> 32
    [] c = "-" -> 45
    [] c = "." -> 46
    [] c = "/" -> 47
    [] c = ">" -> 62
    [] c = "?" -> 63
    [] c = "A" -> 65
    [] c = "C" -> 67
    [] c = "D" -> 68
    [] c = "M" -> 77
    [] c = "R" -> 82
    [] c = "T" -> 84
    [] c = "U" -> 85
    [] c = "a" -> 97
    [] c = "b" -> 98
    [] c = "c" -> 99
    [] c = "d" -> 100
    [] c = "e" -> 101
    [] c = "f" -> 102
    [] c = "g" -> 103
    [] c = "h" -> 104
    [] c = "i" -> 105
    [] c = "j" -> 106
    [] c = "k" -> 107
    [] c = "l" -> 108
    [] c = "m" -> 109
    [] c = "n" -> 110
    [] c = "o" -> 111
    [] c = "p" -> 112
    [] c = "q" -> 113
    [] c = "r" -> 114
    [] c = "s" -> 115
    [] c = "t" -> 116
    [] c = "u" -> 117
    [] c = "v" -> 118
    [] c = "w" -> 119
    [] c = "x" -> 120
    [] c = "y" -> 121
    [] c = "z" -> 122
    [] c = "U+2502" -> 9474
    [] c = "U+2514" -> 9492
    [] c = "U+251C" -> 9500
    [] OTHER -> 57344

\* s < t on strings: lexicographic by code unit, a proper prefix first.
RECURSIVE StrLess(_, _)
StrLess(s, t) ==
  IF t = <<>> THEN FALSE
  ELSE IF s = <<>> THEN TRUE
  ELSE IF Code(Head(s)) # Code(Head(t)) THEN Code(Head(s)) < Code(Head(t))
  ELSE StrLess(Tail(s), Tail(t))

\* s.startsWith(p)
StartsWith(s, p) == Len(p) <= Len(s) /\ SubSeq(s, 1, Len(p)) = p

\* s.split(sep) for a one-character separator: never empty, "" gives [""].
RECURSIVE SplitFrom(_, _, _)
SplitFrom(s, sep, cur) ==
  IF s = <<>> THEN <<cur>>
  ELSE IF Head(s) = sep THEN <<cur>> \o SplitFrom(Tail(s), sep, <<>>)
  ELSE SplitFrom(Tail(s), sep, Append(cur, Head(s)))

Split(s, sep) == SplitFrom(s, sep, <<>>)

\* parts.join(sep)
RECURSIVE Join(_, _)
Join(parts, sep) ==
  IF parts = <<>> THEN <<>>
  ELSE IF Len(parts) = 1 THEN parts[1]
  ELSE parts[1] \o <<sep>> \o Join(Tail(parts), sep)

\* a.slice(0, -1) of an array
SliceInit(a) == IF a = <<>> THEN <<>> ELSE SubSeq(a, 1, Len(a) - 1)

\* s.slice(0, n) and s.slice(n) of a string
SliceTo(s, n) == SubSeq(s, 1, IF n < Len(s) THEN n ELSE Len(s))
SliceFrom(s, n) == SubSeq(s, n + 1, Len(s))

IsSpace(c) == c \in {" ", "\n"}

RECURSIVE TrimEnd(_)
TrimEnd(s) ==
  IF s # <<>> /\ IsSpace(s[Len(s)]) THEN TrimEnd(SliceInit(s)) ELSE s

RECURSIVE TrimStart(_)
TrimStart(s) ==
  IF s # <<>> /\ IsSpace(Head(s)) THEN TrimStart(Tail(s)) ELSE s

Trim(s) == TrimStart(TrimEnd(s))

\* Index of the last occurrence of c in s, 0 when there is none.
RECURSIVE LastIndexOf(_, _)
LastIndexOf(s, c) ==
  IF s = <<>> THEN 0
  ELSE IF s[Len(s)] = c THEN Len(s)
  ELSE LastIndexOf(SliceInit(s), c)

RECURSIVE StripTrailingSlashes(_)
StripTrailingSlashes(s) ==
  IF s # <<>> /\ s[Len(s)] = "/" THEN StripTrailingSlashes(SliceInit(s)) ELSE s

\* std/path (posix) basename: the part after the last separator, trailing
\* separators dropped.
basename(p) ==
  LET q == StripTrailingSlashes(p)
  IN  SubSeq(q, LastIndexOf(q, "/") + 1, Len(q))

\* std/path (posix) extname: from the last dot of the basename, "" when there
\* is no dot, when the only dot starts the basename, and for "..".
extname(p) ==
  LET b == basename(p)
      i == LastIndexOf(b, ".")
  IN  IF i <= 1 \/ b = <<".", ".">> THEN <<>> ELSE SubSeq(b, i, Len(b))


\* Characters outside ASCII: the box-drawing characters of getIndent and the
\* private-use glyphs of the icon tables.  Each is one UTF-16 code unit and
\* three UTF-8 bytes.
BoxChars == {"U+2502", "U+2514", "U+251C"}

IsAscii(c) == Code(c) < 128

\* s.length: UTF-16 code units instead of encoded bytes.
ByteLengthAsStringLength(s) == Len(s)

\* this.textEncoder.encode(s).length
RECURSIVE ByteLength(_)
ByteLength(s) ==
  IF s = <<>> THEN 0
  ELSE (IF IsAscii(Head(s)) THEN 1 ELSE 3) + ByteLength(Tail(s))

\* fn.strwidth(denops, s): display cells.  Box-drawing and private-use
\* characters are of East Asian ambiguous width: 1 or 2 cells by the editor's
\* 'ambiwidth' option, which is aw here.
RECURSIVE strwidth(_, _)
strwidth(s, aw) ==
  IF s = <<>> THEN 0
  ELSE (IF IsAscii(Head(s)) THEN 1 ELSE aw) + strwidth(Tail(s), aw)

\* " ".repeat(n), for n >= 0
Spaces(n) == [i \in 1..n |-> " "]

\* ------------------------------------------------------------ maps

EmptyMap == [k \in {} |-> <<>>]
MapHas(m, k) == k \in DOMAIN m
MapGet(m, k) == IF k \in DOMAIN m THEN m[k] ELSE Undefined
MapSet(m, k, v) == [x \in (DOMAIN m) \cup {k} |-> IF x = k THEN v ELSE m[x]]

\* ------------------------------------------------------------ tables

defaultFileIcon == [icon |-> <<"U+E612">>, color |-> "default"]

specialIcons ==
     "directory_expanded" :> [icon |-> <<"U+E5FE">>, color |-> "green"]
  @@ "directory_link" :> [icon |-> <<"U+F482">>, color |-> "green"]
  @@ "directory" :> [icon |-> <<"U+E5FF">>, color |-> "green"]
  @@ "link" :> [icon |-> <<"U+F0C1">>, color |-> "green"]

extensionIcons ==
     <<"h", "t", "m", "l">> :> [icon |-> <<"U+E60E">>, color |-> "darkOrange"]
  @@ <<"h", "t", "m">> :> [icon |-> <<"U+E60E">>, color |-> "darkOrange"]
  @@ <<"s", "a", "s", "s">> :> [icon |-> <<"U+E603">>, color |-> "default"]
  @@ <<"s", "c", "s", "s">> :> [icon |-> <<"U+E603">>, color |-> "pink"]
  @@ <<"c", "s", "s">> :> [icon |-> <<"U+E614">>, color |-> "blue"]
  @@ <<"m", "d">> :> [icon |-> <<"U+E609">>, color |-> "yellow"]
  @@ <<"m", "a", "r", "k", "d", "o", "w", "n">> :> [icon |-> <<"U+E609">>, color |-> "yellow"]
  @@ <<"j", "s", "o", "n">> :> [icon |-> <<"U+E60B">>, color |-> "beige"]
  @@ <<"j", "s">> :> [icon |-> <<"U+E60C">>, color |-> "beige"]
  @@ <<"r", "b">> :> [icon |-> <<"U+E791">>, color |-> "red"]
  @@ <<"p", "h", "p">> :> [icon |-> <<"U+E608">>, color |-> "purple"]
  @@ <<"p", "y">> :> [icon |-> <<"U+E606">>, color |-> "yellow"]
  @@ <<"p", "y", "c">> :> [icon |-> <<"U+E606">>, color |-> "yellow"]
  @@ <<"v", "i", "m">> :> [icon |-> <<"U+E62B">>, color |-> "green"]
  @@ <<"t", "o", "m", "l">> :> [icon |-> <<"U+E615">>, color |-> "default"]
  @@ <<"s", "h">> :> [icon |-> <<"U+E795">>, color |-> "lightPurple"]
  @@ <<"g", "o">> :> [icon |-> <<"U+E627">>, color |-> "aqua"]
  @@ <<"t", "s">> :> [icon |-> <<"U+E628">>, color |-> "blue"]

\* null of getGitStatus
Null == [status |-> 0, color |-> "null"]

gitStatuses ==
     <<"M">> :> [status |-> 7, color |-> "green"]
  @@ <<"T">> :> [status |-> 6, color |-> "yellow"]
  @@ <<"A">> :> [status |-> 5, color |-> "blue"]
  @@ <<"D">> :> [status |-> 8, color |-> "salmon"]
  @@ <<"R">> :> [status |-> 4, color |-> "yellow"]
  @@ <<"C">> :> [status |-> 3, color |-> "blue"]
  @@ <<"U">> :> [status |-> 2, color |-> "green"]
  @@ <<"?", "?">> :> [status |-> 1, color |-> "yellow"]

\* `DduColumnRichFilename_${highlightGroup}`
getHighlightName(highlightGroup) == <<"DduColumnRichFilename_", highlightGroup>>


\* ------------------------------------------------------------ items

\* The rows the host may supply (DduItem with its ActionData): a directory
\* /r/d that is expanded, a file a.ts in it, a symbolic link a.tsx to that
\* file, and a row that carries no action.path, no treePath and no status.
\* `real` is what Deno.realPath(action.path) resolves to.
Universe ==
  { [word |-> <<"d", "/">>, path |-> <<"/", "r", "/", "d">>,
     treePath |-> <<"/", "r", "/", "d">>, level |-> 0, isTree |-> TRUE,
     expanded |-> TRUE, isLink |-> FALSE, hasStatus |-> TRUE,
     size |-> 3, time |-> 1, real |-> <<"/", "r", "/", "d">>],
    [word |-> <<"a", ".", "t", "s">>,
     path |-> <<"/", "r", "/", "d", "/", "a", ".", "t", "s">>,
     treePath |-> <<"/", "r", "/", "d", "/", "a", ".", "t", "s">>,
     level |-> 1, isTree |-> FALSE, expanded |-> FALSE, isLink |-> FALSE,
     hasStatus |-> TRUE, size |-> 2, time |-> 3,
     real |-> <<"/", "r", "/", "d", "/", "a", ".", "t", "s">>],
    [word |-> <<"a", ".", "t", "s", "x">>,
     path |-> <<"/", "r", "/", "d", "/", "a", ".", "t", "s", "x">>,
     treePath |-> <<"/", "r", "/", "d", "/", "a", ".", "t", "s", "x">>,
     level |-> 1, isTree |-> FALSE, expanded |-> FALSE, isLink |-> TRUE,
     hasStatus |-> TRUE, size |-> 1, time |-> 2,
     real |-> <<"/", "r", "/", "d", "/", "a", ".", "t", "s">>],
    [word |-> <<"w">>, path |-> Undefined, treePath |-> Undefined,
     level |-> 1, isTree |-> FALSE, expanded |-> FALSE, isLink |-> FALSE,
     hasStatus |-> FALSE, size |-> 0, time |-> 0, real |-> Undefined] }

\* Arrays of distinct rows, at most MaxBatch long.
Batches ==
  { b \in UNION { [1..n -> Universe] : n \in 0..MaxBatch } :
      \A i, j \in 1..Len(b) : i # j => b[i] # b[j] }

\* columnParams: sort (already lower case) and sortTreesFirst.
Sorts == {"none", "filename", "extension", "size", "time"}
ParamSets == [sort : Sorts, sortTreesFirst : BOOLEAN]

\* ------------------------------------------------------------ comparators

Compare3(less, greater) == IF less THEN -1 ELSE IF greater THEN 1 ELSE 0

sortByFilename(a, b) ==
  LET nameA == Nullish(a.treePath, a.word)
      nameB == Nullish(b.treePath, b.word)
  IN  Compare3(StrLess(nameA, nameB), StrLess(nameB, nameA))

sortByExtension(a, b) ==
  LET nameA == extname(a.word)
      nameB == extname(b.word)
  IN  Compare3(StrLess(nameA, nameB), StrLess(nameB, nameA))

sortBySize(a, b) ==
  LET sizeA == IF a.hasStatus THEN a.size ELSE -1
      sizeB == IF b.hasStatus THEN b.size ELSE -1
  IN  Compare3(sizeA < sizeB, sizeA > sizeB)

sortByTime(a, b) ==
  LET timeA == IF a.hasStatus THEN a.time ELSE -1
      timeB == IF b.hasStatus THEN b.time ELSE -1
  IN  Compare3(timeA < timeB, timeA > timeB)

sortByNone(a, b) == 0

\* The sortFunc chosen at lines 486-495, applied to a and b.
sortFunc(sortMethod, a, b) ==
  CASE sortMethod = "extension" -> sortByExtension(a, b)
    [] sortMethod = "size" -> sortBySize(a, b)
    [] sortMethod = "time" -> sortByTime(a, b)
    [] sortMethod = "filename" -> sortByFilename(a, b)
    [] OTHER -> sortByNone(a, b)

\* Array.prototype.sort with a comparator: a stable sort.  e goes after every
\* element that does not compare greater than it.
RECURSIVE InsertSorted(_, _, _)
InsertSorted(sorted, e, sortMethod) ==
  IF sorted = <<>> THEN <<e>>
  ELSE IF sortFunc(sortMethod, Head(sorted), e) > 0 THEN <<e>> \o sorted
  ELSE <<Head(sorted)>> \o InsertSorted(Tail(sorted), e, sortMethod)

RECURSIVE ArraySort(_, _)
ArraySort(a, sortMethod) ==
  IF a = <<>> THEN <<>>
  ELSE InsertSorted(ArraySort(SliceInit(a), sortMethod), a[Len(a)], sortMethod)

\* Math.max(...xs) of a non-empty array
RECURSIVE MaxOf(_)
MaxOf(xs) ==
  IF Len(xs) = 1 THEN xs[1]
  ELSE LET m == MaxOf(Tail(xs)) IN IF xs[1] > m THEN xs[1] ELSE m

IsTreeItem(item) == item.isTree
IsFileItem(item) == ~item.isTree

\* ------------------------------------------------------------ the Column

\* setLastFilenameInDir: the host's array after the call and the cache after
\* the call.  filter() makes the array that sort() reorders, so the host's
\* array stays as it was.
\* The array levelItems.sort(sortFunc) leaves, sortTreesFirst applied.
SortedLevelItems(items, columnParams) ==
  LET level == MaxOf([i \in 1..Len(items) |-> items[i].level])
      AtLevel(item) == item.level = level
      levelItems == SelectSeq(items, AtLevel)
      sorted == ArraySort(levelItems, columnParams.sort)
  IN  IF columnParams.sortTreesFirst
      THEN SelectSeq(sorted, IsTreeItem) \o SelectSeq(sorted, IsFileItem)
      ELSE sorted

\* The host's array when setLastFilenameInDir returns.
HostArrayAfterSortingInPlace(items, columnParams) ==
  IF Len(items) <= 1 THEN items ELSE ArraySort(items, columnParams.sort)

HostArrayAfter(items, columnParams) == items

setLastFilenameInDir(items, columnParams, cache) ==
  IF Len(items) <= 1 THEN [items |-> items, cache |-> cache]
  ELSE
    LET sortedItems == SortedLevelItems(items, columnParams)
        after == HostArrayAfter(items, columnParams)
    IN  IF Len(sortedItems) > 0
        THEN LET item == sortedItems[Len(sortedItems)]
                 path == Nullish(item.treePath, <<>>)
                 paths == Split(path, "/")
                 name == paths[Len(paths)]
                 parentPath == Join(SliceInit(paths), "/")
             IN  [items |-> after, cache |-> MapSet(cache, parentPath, name)]
        ELSE [items |-> after, cache |-> cache]

\* The four cells of getIndent.
CellLastSelf == <<"U+2514", " ">>
CellMidSelf == <<"U+251C", " ">>
CellLastAncestor == <<" ", " ">>
CellMidAncestor == <<"U+2502", " ">>

\* The loop of getIndent from iteration i on: paths is what pop() has left,
\* indents the cells unshifted so far.
RECURSIVE IndentLoop(_, _, _, _, _)
IndentLoop(paths, level, i, indents, cache) ==
  IF i >= level \/ paths = <<>> THEN indents
  ELSE
    LET parentPath == Join(SliceInit(paths), "/")
        name == paths[Len(paths)]
        lastName == Nullish(MapGet(cache, parentPath), <<>>)
        isLast == lastName = name
        cell == IF i = 0
                THEN (IF isLast THEN CellLastSelf ELSE CellMidSelf)
                ELSE (IF isLast THEN CellLastAncestor ELSE CellMidAncestor)
    IN  IndentLoop(SliceInit(paths), level, i + 1, <<cell>> \o indents, cache)

\* The array `indents` of getIndent when its loop ends.
getIndentCells(path, level, cache) ==
  IndentLoop(Split(path, "/"), level, 0, <<>>, cache)

\* this.lastFilenameInDir when getIndent returns: it is read with get() and
\* never written.
getIndentCacheFillingMissing(path, level, cache) ==
  LET paths == Split(path, "/")
      parentPath == Join(SliceInit(paths), "/")
  IN  IF level > 0 /\ ~MapHas(cache, parentPath)
      THEN MapSet(cache, parentPath, paths[Len(paths)])
      ELSE cache

getIndentCache(path, level, cache) == cache

RECURSIVE Concat(_)
Concat(parts) == IF parts = <<>> THEN <<>> ELSE Head(parts) \o Concat(Tail(parts))

getIndent(path, level, cache) == Concat(getIndentCells(path, level, cache))

MapGetOr(m, k, default) == IF k \in DOMAIN m THEN m[k] ELSE default

getIconLinkBeforeDirectory(fileName, expanded, isDirectory, isLink) ==
  IF expanded
  THEN MapGetOr(specialIcons, "directory_expanded", defaultFileIcon)
  ELSE IF isLink
  THEN MapGetOr(specialIcons, "link", defaultFileIcon)
  ELSE IF isDirectory
  THEN MapGetOr(specialIcons, "directory", defaultFileIcon)
  ELSE LET ext == SliceFrom(extname(fileName), 1)
       IN  MapGetOr(extensionIcons, ext, defaultFileIcon)

getIcon(fileName, expanded, isDirectory, isLink) ==
  IF expanded
  THEN MapGetOr(specialIcons, "directory_expanded", defaultFileIcon)
  ELSE IF isDirectory
  THEN (IF isLink
        THEN MapGetOr(specialIcons, "directory_link", defaultFileIcon)
        ELSE MapGetOr(specialIcons, "directory", defaultFileIcon))
  ELSE IF isLink
  THEN MapGetOr(specialIcons, "link", defaultFileIcon)
  ELSE LET ext == SliceFrom(extname(fileName), 1)
       IN  MapGetOr(extensionIcons, ext, defaultFileIcon)

\* The least, as strings compare, of the statuses cached under a key that
\* starts with fullPath; Undefined (st == null) when there is no such key.
PrefixStatus(fullPath, gitFilenames) ==
  LET hits == { k \in DOMAIN gitFilenames : StartsWith(k, fullPath) }
  IN  IF hits = {} THEN Undefined
      ELSE LET statuses == { gitFilenames[k] : k \in hits }
           IN  CHOOSE s \in statuses : \A t \in statuses : ~StrLess(t, s)

getGitStatus(fullPath, gitFilenames) ==
  LET status == Nullish(MapGet(gitFilenames, fullPath), <<>>)
  IN  IF status # <<>>
      THEN MapGetOr(gitStatuses, status, Null)
      ELSE LET st == PrefixStatus(fullPath, gitFilenames)
           IN  IF st = Undefined THEN Null
               ELSE MapGetOr(gitStatuses, st, Null)

\* `path` of getLength and of getText before the link suffix.
ItemName(item) ==
  basename(Nullish(item.path, item.word)) \o (IF item.isTree THEN <<"/">> ELSE <<>>)

\* `path` of getText: with ` -> ${await Deno.realPath(action.path)}` for a link
\* that has a path.
ItemText(item) ==
  ItemName(item) \o
  (IF item.isLink /\ item.path # Undefined
   THEN <<" ", "-", ">", " ">> \o item.real ELSE <<>>)

\* One element of `widths` in getLength.
ItemLength(item) == (item.level * 3) + 3 + 1 + Len(ItemName(item))

\* Math.max(...widths) of no widths is -Infinity.
NegInfinity == 0 - 1000000

\* The value getLength returns.
getLengthResult(items) ==
  IF items = <<>> THEN NegInfinity
  ELSE MaxOf([i \in 1..Len(items) |-> ItemLength(items[i])])

\* The result of getText: `threw` when " ".repeat() is given a negative count
\* (a RangeError), else the text and the highlights.
getText(item, startCol, endCol, aw, cache, gitFilenames) ==
  LET isDirectory == item.isTree
      isLink == item.isLink
      path == ItemText(item)
      indent == getIndent(Nullish(item.path, <<>>), item.level, cache)
      indentBytesLength == ByteLength(indent)
      iconData == getIcon(path, item.expanded, isDirectory, isLink)
      iconBytesLength == ByteLength(iconData.icon)
      iconHighlight ==
        [name |-> "column-filename-icon",
         hl_group |-> getHighlightName(iconData.color),
         col |-> startCol + indentBytesLength,
         width |-> iconBytesLength]
      fullPath == Nullish(item.path, <<>>) \o (IF isDirectory THEN <<"/">> ELSE <<>>)
      gitStatus == getGitStatus(fullPath, gitFilenames)
      highlights ==
        IF gitStatus # Null
        THEN <<iconHighlight,
               [name |-> "column-filename-name",
                hl_group |-> getHighlightName(gitStatus.color),
                col |-> startCol + indentBytesLength + iconBytesLength + 1,
                width |-> ByteLength(path)]>>
        ELSE <<iconHighlight>>
      text == indent \o iconData.icon \o <<" ">> \o path
      width == strwidth(text, aw)
      count == endCol - startCol - width
  IN  IF count < 0
      THEN [threw |-> TRUE, text |-> <<>>, highlights |-> <<>>, count |-> count]
      ELSE [threw |-> FALSE, text |-> text \o Spaces(count),
            highlights |-> highlights, count |-> count]


\* toHashString(crypto.subtle.digestSync('MD5', ...)): 32 hex digits, so never
\* the '' that gitStatusHash starts as; equal for equal inputs and, on the
\* outputs modelled, different for different ones.
MD5(s) == <<"md5">> \o s

\* The loop of checkGitDiff over gitStatusString.split("\n").
RECURSIVE SetGitFilenames(_, _, _)
SetGitFilenames(lines, root, map) ==
  IF lines = <<>> THEN map
  ELSE LET gitStatus == Head(lines)
           status == Trim(SliceTo(gitStatus, 3))
           name == SliceFrom(gitStatus, 3)
       IN  SetGitFilenames(Tail(lines), root,
                           MapSet(map, root \o <<"/">> \o name, status))

\* checkGitDiff after its await, given what `git status --porcelain -u`
\* printed: the hash and the map it leaves.
checkGitDiffResultHashNotStored(out, root, hash, map) ==
  LET gitStatusString == TrimEnd(out)
      newHash == MD5(gitStatusString)
  IN  IF newHash = hash THEN [hash |-> hash, map |-> map]
      ELSE [hash |-> hash,
            map |-> SetGitFilenames(Split(gitStatusString, "\n"), root, EmptyMap)]

checkGitDiffResult(out, root, hash, map) ==
  LET gitStatusString == TrimEnd(out)
      newHash == MD5(gitStatusString)
  IN  IF newHash = hash THEN [hash |-> hash, map |-> map]
      ELSE [hash |-> newHash,
            map |-> SetGitFilenames(Split(gitStatusString, "\n"), root, EmptyMap)]

\* What `git rev-parse --show-superproject-working-tree --show-toplevel
\* 2>/dev/null | head -1` prints: nothing outside a work tree, else the root.
RevParseOutputs == { <<>>, <<"/", "r", "\n">> }

\* What `git status --porcelain -u` prints: nothing in a clean tree, or a
\* modified d/a.tsx and an untracked n.
GitOutputs ==
  { <<>>,
    <<" ", "M", " ", "d", "/", "a", ".", "t", "s", "x", "\n",
      "?", "?", " ", "n", "\n">> }

\* startCol of getText, the columns to the left taking three cells; endCol is
\* startCol plus the width getLength returned.
StartCols == {3}

\* The editor's 'ambiwidth': single or double.
AmbiWidths == {1, 2}

\* ------------------------------------------------------------ state

VARIABLES
  passed,             \* the array the host passed to the last getLength, as built
  items,              \* that same array object after the call
  columnParams,       \* the host's columnParams
  colWidth,           \* what the last getLength returned
  calls,              \* getLength calls so far: 0, 1, or 2 for two or more
  lastFilenameInDir,  \* this.lastFilenameInDir
  gitRoot,            \* this.gitRoot
  gitFilenames,       \* this.gitFilenames
  gitStatusHash,      \* this.gitStatusHash
  pendingInitGit,     \* initGit runs suspended at their await
  pendingCheckGitDiff,\* checkGitDiff runs suspended at their await
  ret                 \* the last getText call for the batch, what it returned,
                      \* and whether a cache was rebuilt since (stale)

vars == <<passed, items, columnParams, colWidth, calls, lastFilenameInDir,
          gitRoot, gitFilenames, gitStatusHash, pendingInitGit,
          pendingCheckGitDiff, ret>>

NoItem == [word |-> <<>>, path |-> Undefined, treePath |-> Undefined,
           level |-> 0, isTree |-> FALSE, expanded |-> FALSE, isLink |-> FALSE,
           hasStatus |-> FALSE, size |-> 0, time |-> 0, real |-> Undefined]

NoRet == [op |-> "none", item |-> NoItem, startCol |-> 0, endCol |-> 0, aw |-> 1,
          stale |-> FALSE,
          result |-> [threw |-> FALSE, text |-> <<>>, highlights |-> <<>>,
                      count |-> 0]]

\* params(): lines 413-418.
params == [sort |-> "none", sortTreesFirst |-> FALSE]

\* new Column(): lines 309-318.  P is the host's columnParams.
Constructed(P) ==
  /\ passed = <<>>
  /\ items = <<>>
  /\ columnParams \in P
  /\ colWidth = 0
  /\ calls = 0
  /\ lastFilenameInDir = EmptyMap
  /\ gitRoot = Undefined
  /\ gitFilenames = EmptyMap
  /\ gitStatusHash = <<>>
  /\ pendingInitGit = 0
  /\ pendingCheckGitDiff = 0
  /\ ret = NoRet

\* The host leaves columnParams as params() declares them.
Init == Constructed({params})

\* The host sets columnParams: any sort, trees first or not.
InitAnyParams == Constructed(ParamSets)

\* initGit up to its await: it goes on to ask for the root only while gitRoot
\* is undefined.
InitGitStarts == gitRoot = Undefined

\* checkGitDiff up to its await: it returns at once while gitRoot is '' or
\* undefined.
CheckGitDiffStarts == ~(gitRoot = <<>> \/ gitRoot = Undefined)

\* getLength(items): setLastFilenameInDir, then initGit and checkGitDiff are
\* started and not awaited, then the widths.
GetLength(batch) ==
  LET r == setLastFilenameInDir(batch, columnParams, lastFilenameInDir)
  IN  /\ InitGitStarts => pendingInitGit < MaxTasks
      /\ CheckGitDiffStarts => pendingCheckGitDiff < MaxTasks
      /\ passed' = batch
      /\ items' = r.items
      /\ lastFilenameInDir' = r.cache
      /\ pendingInitGit' = pendingInitGit + (IF InitGitStarts THEN 1 ELSE 0)
      /\ pendingCheckGitDiff' =
           pendingCheckGitDiff + (IF CheckGitDiffStarts THEN 1 ELSE 0)
      /\ colWidth' = getLengthResult(r.items)
      /\ calls' = IF calls = 0 THEN 1 ELSE 2
      /\ ret' = NoRet
      /\ UNCHANGED <<columnParams, gitRoot, gitFilenames, gitStatusHash>>

\* initGit after its await.
InitGitResume(out) ==
  /\ pendingInitGit > 0
  /\ pendingInitGit' = pendingInitGit - 1
  /\ gitRoot' = Trim(out)
  /\ UNCHANGED <<passed, items, columnParams, colWidth, calls,
                 lastFilenameInDir, gitFilenames, gitStatusHash,
                 pendingCheckGitDiff, ret>>

\* checkGitDiff after its await.
CheckGitDiffResume(out) ==
  LET r == checkGitDiffResult(out, gitRoot, gitStatusHash, gitFilenames)
  IN  /\ pendingCheckGitDiff > 0
      /\ pendingCheckGitDiff' = pendingCheckGitDiff - 1
      /\ gitStatusHash' = r.hash
      /\ gitFilenames' = r.map
      /\ ret' = IF ret.op = "getText" /\
                   (r.map # gitFilenames \/ r.hash # gitStatusHash)
                THEN [ret EXCEPT !.stale = TRUE] ELSE ret
      /\ UNCHANGED <<passed, items, columnParams, colWidth, calls,
                     lastFilenameInDir, gitRoot, pendingInitGit>>

\* getText for a row of the batch, in the column getLength sized.
GetText(i, startCol, aw) ==
  LET item == items[i]
      path == Nullish(item.path, <<>>)
  IN  /\ calls > 0
      /\ ret' = [op |-> "getText", item |-> item, startCol |-> startCol,
                 endCol |-> startCol + colWidth, aw |-> aw, stale |-> FALSE,
                 result |-> getText(item, startCol, startCol + colWidth, aw,
                                    lastFilenameInDir, gitFilenames)]
      /\ lastFilenameInDir' = getIndentCache(path, item.level, lastFilenameInDir)
      /\ UNCHANGED <<passed, items, columnParams, colWidth, calls, gitRoot,
                     gitFilenames, gitStatusHash, pendingInitGit,
                     pendingCheckGitDiff>>

Next ==
  \/ \E batch \in Batches : GetLength(batch)
  \/ \E out \in RevParseOutputs : InitGitResume(out)
  \/ \E out \in GitOutputs : CheckGitDiffResume(out)
  \/ \E i \in 1..Len(items), startCol \in StartCols, aw \in AmbiWidths :
       GetText(i, startCol, aw)

Spec == Init /\ [][Next]_vars

\* The editor runs outside any git work tree: rev-parse prints nothing, so
\* no checkGitDiff ever gets past its first test.
NextNoGit ==
  \/ \E batch \in Batches : GetLength(batch)
  \/ InitGitResume(<<>>)
  \/ \E i \in 1..Len(items), startCol \in StartCols, aw \in AmbiWidths :
       GetText(i, startCol, aw)

SpecNoGit == InitAnyParams /\ [][NextNoGit]_vars

\* ------------------------------------------------------------ claims

\* The batch rows that share the parent directory of item: same action.path
\* up to the last "/".
ParentOf(item) == Join(SliceInit(Split(Nullish(item.path, <<>>), "/")), "/")

SameParent(item) == LET Sibling(x) == ParentOf(x) = ParentOf(item)
                    IN  SelectSeq(items, Sibling)

\* The siblings of item in the batch in the configured order: sort, then
\* trees first when sortTreesFirst.
SiblingsInOrder(item) ==
  LET sorted == ArraySort(SameParent(item), columnParams.sort)
  IN  IF columnParams.sortTreesFirst
      THEN SelectSeq(sorted, IsTreeItem) \o SelectSeq(sorted, IsFileItem)
      ELSE sorted

IsLastSibling(item) ==
  LET sibs == SiblingsInOrder(item) IN sibs[Len(sibs)] = item

\* The branch cell of the row itself in the text getText returned: the
\* rightmost indent cell.
OwnCellOf(r) ==
  LET cells == getIndentCells(Nullish(r.item.path, <<>>), r.item.level,
                              lastFilenameInDir)
  IN  SubSeq(r.result.text, 2 * Len(cells) - 1, 2 * Len(cells))

Rendered == ret.op = "getText" /\ ~ret.result.threw

\* C1: after getLength on a batch, getText renders the branch cell of every
\* row of level >= 1 as the "last" corner exactly when the row is the last of
\* the batch rows in its parent directory, in the configured sort order.
C1_BranchCellMarksLastSibling ==
  (Rendered /\ ret.item.level >= 1) =>
    (OwnCellOf(ret) = CellLastSelf <=> IsLastSibling(ret.item))

\* The parent directory and the name setLastFilenameInDir derives from a row.
EntryOf(item) ==
  LET paths == Split(Nullish(item.treePath, <<>>), "/")
  IN  [parentPath |-> Join(SliceInit(paths), "/"), name |-> paths[Len(paths)]]

\* C2: after any getLength call, every entry of lastFilenameInDir is derived
\* from a row of the batch of that call: none written for an earlier batch
\* survives.
C2_CacheHoldsOnlyLastBatch ==
  calls > 0 =>
    \A k \in DOMAIN lastFilenameInDir :
      \E i \in 1..Len(items) :
        EntryOf(items[i]) = [parentPath |-> k, name |-> lastFilenameInDir[k]]

\* C3: in a column as wide as getLength said, the padding count of getText is
\* never negative and the text returned is exactly endCol - startCol cells
\* wide, for linked rows too.
C3_TextFillsColumn ==
  ret.op = "getText" =>
    /\ ~ret.result.threw
    /\ ret.result.count >= 0
    /\ strwidth(ret.result.text, ret.aw) = ret.endCol - ret.startCol

\* gitStatusHash and gitFilenames as a checkGitDiff run that read `out` under
\* root leaves them when it rebuilds.
LoadedFrom(out, root) ==
  /\ gitStatusHash = MD5(TrimEnd(out))
  /\ gitFilenames = SetGitFilenames(Split(TrimEnd(out), "\n"), root, EmptyMap)

\* C4: gitFilenames and gitStatusHash change only in a checkGitDiff run whose
\* output hashes to something else than the stored gitStatusHash, and then
\* both are replaced from that output; a run whose output hashes to the
\* stored hash, like every other step, leaves both as they were.
C4_RebuiltOnlyOnNewHash ==
  [][ (gitFilenames' # gitFilenames \/ gitStatusHash' # gitStatusHash) =>
        /\ pendingCheckGitDiff' = pendingCheckGitDiff - 1
        /\ gitStatusHash' # gitStatusHash
        /\ \E out \in GitOutputs :
             /\ MD5(TrimEnd(out)) # gitStatusHash
             /\ gitStatusHash' = MD5(TrimEnd(out))
             /\ gitFilenames' =
                  SetGitFilenames(Split(TrimEnd(out), "\n"), gitRoot, EmptyMap)
    ]_vars

\* A checkGitDiff run has replaced the cache, and a later getLength call
\* started another run. 
C4_Witness ==
  /\ gitStatusHash # <<>>
  /\ gitFilenames # EmptyMap
  /\ pendingCheckGitDiff > 0

\* C9: on a new Column in a git work tree, once the first getLength call and
\* the initGit and checkGitDiff work it started have finished, the git status
\* cache holds the entries of a git status output.
C9_FirstGetLengthLoadsGitStatus ==
  (/\ calls = 1
   /\ pendingInitGit = 0
   /\ pendingCheckGitDiff = 0
   /\ gitRoot # Undefined
   /\ gitRoot # <<>>) =>
    \E out \in GitOutputs : LoadedFrom(out, gitRoot)

HasNameHighlight(r) ==
  \E h \in 1..Len(r.result.highlights) :
    r.result.highlights[h].name = "column-filename-name"

\* C10: a row that is no directory gets the "column-filename-name" highlight
\* only when the git status cache has an entry under exactly its path, and a
\* row with no path gets none.
C10_NameHighlightNeedsOwnEntry ==
  (Rendered /\ ~ret.stale /\ ~ret.item.isTree /\ HasNameHighlight(ret)) =>
    /\ ret.item.path # Undefined
    /\ MapHas(gitFilenames, ret.item.path)

\* Two getText calls in a row of the trace, the second for a row with the
\* attributes, startCol, endCol and 'ambiwidth' of the first.
SameCallAgain ==
  /\ ret.op = "getText"
  /\ ret'.op = "getText"
  /\ ret'.item = ret.item
  /\ ret'.startCol = ret.startCol
  /\ ret'.endCol = ret.endCol
  /\ ret'.aw = ret.aw

\* The git status cache lists the row itself, or a path inside the directory
\* the row is.
ListedInGit(item, map) ==
  /\ item.path # Undefined
  /\ \E k \in DOMAIN map :
       \/ k = item.path
       \/ item.isTree /\ StartsWith(k, item.path \o <<"/">>)

ExtensionOf(fileName) ==
  LET parts == Split(basename(fileName), ".")
  IN  IF Len(parts) = 1 \/ (Len(parts) = 2 /\ parts[1] = <<>>) THEN Undefined
      ELSE parts[Len(parts)]

\* The reference of C7, glyphs and colours as lines 314 and 611-614 have them.
ReferenceIcon(fileName, expanded, isDirectory, isLink) ==
  CASE expanded -> [icon |-> <<"U+E5FE">>, color |-> "green"]
    [] ~expanded /\ isDirectory /\ isLink ->
         [icon |-> <<"U+F482">>, color |-> "green"]
    [] ~expanded /\ isDirectory /\ ~isLink ->
         [icon |-> <<"U+E5FF">>, color |-> "green"]
    [] ~expanded /\ ~isDirectory /\ isLink ->
         [icon |-> <<"U+F0C1">>, color |-> "green"]
    [] OTHER ->
         IF ExtensionOf(fileName) \in DOMAIN extensionIcons
         THEN extensionIcons[ExtensionOf(fileName)]
         ELSE [icon |-> <<"U+E612">>, color |-> "default"]

\* File names getIcon is tried on beside those of the rows: with and without
\* an extension of the table, with two dots, starting or ending with a dot.
FileNames ==
  { <<"a", ".", "t", "s">>, <<"a", ".", "t", "s", "x">>, <<"w">>,
    <<"a", ".", "m", "d">>, <<"a", ".", "t", "s", ".", "m", "d">>,
    <<".", "v", "i", "m">>, <<"a", ".">>, <<"d", "/">>,
    <<"a", ".", "t", "s", " ", "-", ">", " ", "/", "r", "/", "a", ".", "m", "d">> }

IconEntries ==
  { specialIcons[k] : k \in DOMAIN specialIcons } \cup
  { extensionIcons[k] : k \in DOMAIN extensionIcons } \cup {defaultFileIcon}

\* C7: getIcon is the reference for every combination of expanded,
\* isDirectory, isLink and file name, for the rows of the batch as getText
\* calls it and for the file names above, and returns an entry of the tables
\* or the default file icon.
C7_GetIconIsReference ==
  /\ \A i \in 1..Len(items) :
       LET item == items[i]
           icon == getIcon(ItemText(item), item.expanded, item.isTree, item.isLink)
       IN  /\ icon = ReferenceIcon(ItemText(item), item.expanded, item.isTree,
                                   item.isLink)
           /\ icon \in IconEntries
  /\ Rendered =>
       ret.result.highlights[1].hl_group =
         getHighlightName(ReferenceIcon(ItemText(ret.item), ret.item.expanded,
                                        ret.item.isTree, ret.item.isLink).color)
  /\ \A fileName \in FileNames, expanded, isDirectory, isLink \in BOOLEAN :
       /\ getIcon(fileName, expanded, isDirectory, isLink) =
            ReferenceIcon(fileName, expanded, isDirectory, isLink)
       /\ getIcon(fileName, expanded, isDirectory, isLink) \in IconEntries

\* getText has drawn the icon of a file whose extension the table has.
C7_Witness ==
  /\ Rendered
  /\ ~ret.item.expanded /\ ~ret.item.isTree /\ ~ret.item.isLink
  /\ ExtensionOf(ItemText(ret.item)) \in DOMAIN extensionIcons
  /\ SubSeq(ret.result.text, 2 * ret.item.level + 1, 2 * ret.item.level + 1) =
       <<"U+E628">>

Min(a, b) == IF a < b THEN a ELSE b

\* The k-th cell from the right of getIndent(path, level) stands for the
\* k-th segment of path from the right: the row itself for k = 1, an ancestor
\* beyond.  It is of the "last" kind when that name is the cached last name
\* of the directory before it.
IsCachedLast(path, k) ==
  LET paths == Split(path, "/")
      upTo == SubSeq(paths, 1, Len(paths) - k + 1)
      parentPath == Join(SliceInit(upTo), "/")
  IN  /\ MapHas(lastFilenameInDir, parentPath)
      /\ lastFilenameInDir[parentPath] = upTo[Len(upTo)]

IndentAsClaimed(path, level) ==
  LET cells == getIndentCells(path, level, lastFilenameInDir)
      n == Len(cells)
  IN  /\ n = Min(level, Len(Split(path, "/")))
      /\ \A k \in 1..n :
           cells[n - k + 1] =
             IF k = 1
             THEN (IF IsCachedLast(path, k) THEN CellLastSelf ELSE CellMidSelf)
             ELSE (IF IsCachedLast(path, k) THEN CellLastAncestor
                   ELSE CellMidAncestor)
      /\ getIndentCache(path, level, lastFilenameInDir) = lastFilenameInDir

\* Levels getIndent is tried at, up to one more than the deepest path has
\* segments.
Levels == 0..5

\* C8: getIndent(path, level) returns min(level, segments of path) cells,
\* outermost ancestor first, the cell of the row a corner or a tee and the
\* others blank or a bar, each of the "last" kind exactly when the name it
\* stands for is the cached last name of its parent directory, and leaves the
\* cache as it was.
C8_GetIndentCells ==
  calls > 0 =>
    \A i \in 1..Len(items), level \in Levels :
      IndentAsClaimed(Nullish(items[i].path, <<>>), level)

\* The UTF-8 encoding of s as a sequence of bytes, each named by its character
\* and its place in it: one byte for an ASCII character, three for the
\* box-drawing and private-use characters.
RECURSIVE Utf8(_)
Utf8(s) ==
  IF s = <<>> THEN <<>>
  ELSE (IF IsAscii(Head(s)) THEN << <<Head(s), 1>> >>
        ELSE << <<Head(s), 1>>, <<Head(s), 2>>, <<Head(s), 3>> >>)
       \o Utf8(Tail(s))

\* The bytes of the text getText returned that the span h covers.
BytesUnder(r, h) ==
  SubSeq(Utf8(r.result.text), h.col - r.startCol + 1,
         h.col - r.startCol + h.width)

SpansNamed(r, name) ==
  { h \in 1..Len(r.result.highlights) : r.result.highlights[h].name = name }

\* C11: whenever getText returns, its highlight list starts with the only
\* "column-filename-icon" span, at startCol plus the bytes of the indent and
\* as wide as the bytes of the icon; a "column-filename-name" span is there
\* exactly when getGitStatus of the row's full path is not null, one byte
\* after the icon and as wide as the bytes of the path; the spans cover the
\* icon and the path in the encoded text, do not overlap, and end within the
\* encoded text.
C11_HighlightSpansWellFormed ==
  Rendered =>
    LET item == ret.item
        hs == ret.result.highlights
        indent == getIndent(Nullish(item.path, <<>>), item.level,
                            lastFilenameInDir)
        icon == getIcon(ItemText(item), item.expanded, item.isTree,
                        item.isLink).icon
        path == ItemText(item)
        fullPath == Nullish(item.path, <<>>) \o
                    (IF item.isTree THEN <<"/">> ELSE <<>>)
        end == ret.startCol + Len(Utf8(ret.result.text))
    IN  /\ Len(hs) >= 1
        /\ SpansNamed(ret, "column-filename-icon") = {1}
        /\ hs[1].col = ret.startCol + Len(Utf8(indent))
        /\ hs[1].width = Len(Utf8(icon))
        /\ BytesUnder(ret, hs[1]) = Utf8(icon)
        /\ hs[1].col + hs[1].width <= end
        /\ SpansNamed(ret, "column-filename-name") \in {{}, {2}}
        /\ Len(hs) = 1 + Cardinality(SpansNamed(ret, "column-filename-name"))
        /\ ~ret.stale =>
             (SpansNamed(ret, "column-filename-name") = {2} <=>
                getGitStatus(fullPath, gitFilenames) # Null)
        /\ Len(hs) = 2 =>
             /\ hs[2].col = ret.startCol + Len(Utf8(indent)) + Len(Utf8(icon)) + 1
             /\ hs[2].width = Len(Utf8(path))
             /\ BytesUnder(ret, hs[2]) = Utf8(path)
             /\ hs[1].col + hs[1].width <= hs[2].col
             /\ hs[2].col + hs[2].width <= end

\* getText has returned both spans for a row drawn with an indent, whose
\* characters take three bytes each.
C11_Witness ==
  /\ Rendered
  /\ ~ret.stale
  /\ ret.item.level >= 1
  /\ Len(ret.result.highlights) = 2
  /\ ret.result.highlights[2].name = "column-filename-name"

====
